---------------------------- MODULE Spec2Model ----------------------------
(***************************************************************************)
(* Model of the Tamagotchi pet simulation: the passive degradation engine  *)
(* (models/Tamagotchi.js, sleep-system version), the sleep/wake state      *)
(* machine (models/SleepSystem.js), the pet routes and the two cron sweeps *)
(* of server.js.                                                           *)
(*                                                                         *)
(* Time is counted in whole minutes since local midnight of day 0, so      *)
(* hoursDiff = m / 60 and Math.floor(hoursDiff * k) = (m * k) \div 60.     *)
(* A JavaScript object is a record: the snake_case keys are the columns of *)
(* the row, the camelCase keys are the ones calculatePassiveDegradation    *)
(* and the toggles add; `keys` is the set of camelCase keys that are       *)
(* present (an absent key reads as undefined and is sent to SQL as NULL).  *)
(***************************************************************************)
EXTENDS Integers, FiniteSets

VARIABLES
    table,   \* the tamagotchi table: a set of rows
    now,     \* the wall clock, in minutes
    op,      \* the operation that ran last
    result,  \* its outcome: "ok" or the error it failed with
    ret,     \* what calculatePassiveDegradation returned in it (a set: empty or one object)
    prev,    \* the table as it was before the last operation
    steps,   \* number of steps taken (bounds the exploration)
    inflight \* the requests that are between two of their queries

vars == <<table, now, op, result, ret, prev, steps, inflight>>

-----------------------------------------------------------------------------
(* Bounds of the exploration *)

MaxSteps == 5

MaxNow == 5770

Owners == {1}

\* requests the server can be handling at the same time
Calls == {1, 2}

\* clock advances between requests, in minutes
Deltas == {5, 6, 120, 600, 4320}

\* the wall clock when the server starts (23:54 of day 0)
StartTime == 1434

-----------------------------------------------------------------------------
(* Helpers *)

Null == -1

Max(a, b) == IF a >= b THEN a ELSE b

Min(a, b) == IF a <= b THEN a ELSE b

Stages == {"egg", "baby", "child", "teen", "adult", "dead"}

SleepStates == {"awake", "falling_asleep", "asleep", "waking_up"}

\* Date.getHours() of a timestamp
HourOf(t) == (t \div 60) % 24

\* new Date(x) - new Date(null) is the epoch
DateOf(t) == IF t = Null THEN 0 ELSE t

-----------------------------------------------------------------------------
(* SleepSystem *)

SleepStart(stage) ==
    CASE stage = "baby" -> 20
      [] stage = "child" -> 20
      [] stage = "teen" -> 21
      [] stage = "adult" -> 22

SleepEnd(stage) ==
    CASE stage = "baby" -> 8
      [] stage = "child" -> 7
      [] stage = "teen" -> 7
      [] stage = "adult" -> 6

FallingAsleepMinutes == 5

WakingUpMinutes == 3

\* (variant: without the overnight case)
shouldBeSleeping_sameDay(stage, currentHour) ==
    IF stage = "egg" \/ stage = "dead" THEN FALSE
    ELSE currentHour >= SleepStart(stage) /\ currentHour < SleepEnd(stage)

shouldBeSleeping(stage, currentHour) ==
    IF stage = "egg" \/ stage = "dead" THEN FALSE
    ELSE IF SleepStart(stage) > SleepEnd(stage)
         THEN currentHour >= SleepStart(stage) \/ currentHour < SleepEnd(stage)
         ELSE currentHour >= SleepStart(stage) /\ currentHour < SleepEnd(stage)

\* (variant: the penalties are taken off the stored sleep_quality)
calculateSleepQuality_accumulated(pet, lightOn, isInterrupted) ==
    LET q1 == IF pet.sleep_state = "asleep" /\ lightOn THEN 30 ELSE 0
        q2 == IF isInterrupted THEN 20 ELSE 0
        q3 == IF pet.hunger < 30 THEN 15 ELSE 0
        q4 == IF pet.hygiene < 30 THEN 15 ELSE 0
        q5 == IF pet.happiness < 30 THEN 10 ELSE 0
    IN  Max(0, pet.sleep_quality - q1 - q2 - q3 - q4 - q5)

calculateSleepQuality(pet, lightOn, isInterrupted) ==
    LET q1 == IF pet.sleep_state = "asleep" /\ lightOn THEN 30 ELSE 0
        q2 == IF isInterrupted THEN 20 ELSE 0
        q3 == IF pet.hunger < 30 THEN 15 ELSE 0
        q4 == IF pet.hygiene < 30 THEN 15 ELSE 0
        q5 == IF pet.happiness < 30 THEN 10 ELSE 0
    IN  Max(0, 100 - q1 - q2 - q3 - q4 - q5)

\* (variant: an awake pet inside its sleep window is asleep at once)
updateSleepState_direct(pet, t) ==
    LET shouldSleep == shouldBeSleeping(pet.stage, HourOf(t))
        cur == pet.sleep_state
        since == t - DateOf(pet.sleep_start_time)
        newState ==
            CASE cur = "awake" ->
                    IF shouldSleep THEN "asleep" ELSE cur
              [] cur = "falling_asleep" ->
                    IF since >= FallingAsleepMinutes THEN "asleep"
                    ELSE IF ~shouldSleep THEN "awake" ELSE cur
              [] cur = "asleep" ->
                    IF ~shouldSleep THEN "waking_up" ELSE cur
              [] cur = "waking_up" ->
                    IF since >= WakingUpMinutes THEN "awake" ELSE cur
        startTime == IF cur = "awake" /\ shouldSleep THEN t ELSE pet.sleep_start_time
    IN  [sleep_state |-> newState,
         sleep_start_time |-> startTime,
         sleep_quality |-> calculateSleepQuality(pet, pet.light_on, FALSE),
         isInterrupted |-> FALSE]

\* (variant: a sleeping pet is not woken before it has slept 8 hours)
updateSleepState_sleepIn(pet, t) ==
    LET shouldSleep == shouldBeSleeping(pet.stage, HourOf(t))
        cur == pet.sleep_state
        since == t - DateOf(pet.sleep_start_time)
        newState ==
            CASE cur = "awake" ->
                    IF shouldSleep THEN "falling_asleep" ELSE cur
              [] cur = "falling_asleep" ->
                    IF since >= FallingAsleepMinutes THEN "asleep"
                    ELSE IF ~shouldSleep THEN "awake" ELSE cur
              [] cur = "asleep" ->
                    IF ~shouldSleep /\ since >= 480 THEN "waking_up" ELSE cur
              [] cur = "waking_up" ->
                    IF since >= WakingUpMinutes THEN "awake" ELSE cur
        startTime == IF cur = "awake" /\ shouldSleep THEN t ELSE pet.sleep_start_time
        isInterrupted == cur = "falling_asleep" /\ since < FallingAsleepMinutes /\ ~shouldSleep
    IN  [sleep_state |-> newState,
         sleep_start_time |-> startTime,
         sleep_quality |-> calculateSleepQuality(pet, pet.light_on, isInterrupted),
         isInterrupted |-> isInterrupted]

\* (variant: the end of the window is tested before the 5 minutes)
updateSleepState_windowFirst(pet, t) ==
    LET shouldSleep == shouldBeSleeping(pet.stage, HourOf(t))
        cur == pet.sleep_state
        since == t - DateOf(pet.sleep_start_time)
        newState ==
            CASE cur = "awake" ->
                    IF shouldSleep THEN "falling_asleep" ELSE cur
              [] cur = "falling_asleep" ->
                    IF ~shouldSleep THEN "awake"
                    ELSE IF since >= FallingAsleepMinutes THEN "asleep" ELSE cur
              [] cur = "asleep" ->
                    IF ~shouldSleep THEN "waking_up" ELSE cur
              [] cur = "waking_up" ->
                    IF since >= WakingUpMinutes THEN "awake" ELSE cur
        startTime == IF cur = "awake" /\ shouldSleep THEN t ELSE pet.sleep_start_time
        isInterrupted == cur = "falling_asleep" /\ ~shouldSleep
    IN  [sleep_state |-> newState,
         sleep_start_time |-> startTime,
         sleep_quality |-> calculateSleepQuality(pet, pet.light_on, isInterrupted),
         isInterrupted |-> isInterrupted]

updateSleepState(pet, t) ==
    LET shouldSleep == shouldBeSleeping(pet.stage, HourOf(t))
        cur == pet.sleep_state
        since == t - DateOf(pet.sleep_start_time)
        newState ==
            CASE cur = "awake" ->
                    IF shouldSleep THEN "falling_asleep" ELSE cur
              [] cur = "falling_asleep" ->
                    IF since >= FallingAsleepMinutes THEN "asleep"
                    ELSE IF ~shouldSleep THEN "awake" ELSE cur
              [] cur = "asleep" ->
                    IF ~shouldSleep THEN "waking_up" ELSE cur
              [] cur = "waking_up" ->
                    IF since >= WakingUpMinutes THEN "awake" ELSE cur
        startTime == IF cur = "awake" /\ shouldSleep THEN t ELSE pet.sleep_start_time
        isInterrupted == cur = "falling_asleep" /\ since < FallingAsleepMinutes /\ ~shouldSleep
    IN  [sleep_state |-> newState,
         sleep_start_time |-> startTime,
         sleep_quality |-> calculateSleepQuality(pet, pet.light_on, isInterrupted),
         isInterrupted |-> isInterrupted]

\* m is the elapsed time in minutes: Math.floor(hoursDiff * 10) = m \div 6, etc.
calculateEnergyChange(pet, m) ==
    CASE pet.sleep_state = "asleep" -> ((m \div 6) * pet.sleep_quality) \div 100
      [] pet.sleep_state \in {"falling_asleep", "waking_up"} -> m \div 12
      [] pet.sleep_state = "awake" -> 0 - (m \div 4)

\* handleManualSleepToggle(pet) with forceAwake = false, as toggleSleep calls it
handleManualSleepToggle(pet, t) ==
    IF pet.sleep_state = "awake"
    THEN [sleep_state |-> "falling_asleep", sleep_start_time |-> t, happinessPenalty |-> 0]
    ELSE [sleep_state |-> "awake", sleep_start_time |-> Null,
          happinessPenalty |-> IF pet.sleep_state = "asleep" THEN 0 - 5 ELSE 0]

\* (variant: turning the light off is rewarded at any hour)
handleLightToggle_anyHour(pet, lightOn, t) ==
    LET b1 == IF ~lightOn THEN 5 ELSE 0
        b2 == IF pet.sleep_state = "asleep" /\ lightOn THEN 0 - 5 ELSE b1
    IN  [light_on |-> lightOn, happinessBonus |-> b2]

handleLightToggle(pet, lightOn, t) ==
    LET b1 == IF shouldBeSleeping(pet.stage, HourOf(t)) /\ ~lightOn THEN 5 ELSE 0
        b2 == IF pet.sleep_state = "asleep" /\ lightOn THEN 0 - 5 ELSE b1
    IN  [light_on |-> lightOn, happinessBonus |-> b2]

-----------------------------------------------------------------------------
(* Tamagotchi: rows and objects *)

\* column defaults of the sleep columns (sleep_state, sleep_start_time,
\* sleep_quality, light_on)
DefaultSleepState == "awake"

DefaultSleepQuality == 100

DefaultLightOn == TRUE

\* INSERT INTO tamagotchi (user_id, name): every other column takes its default
create(userId, t) ==
    [user_id |-> userId, stage |-> "egg",
     created_at |-> t, last_interacted_at |-> t,
     hunger |-> 100, happiness |-> 100, hygiene |-> 100, health |-> 100,
     discipline |-> 0, energy |-> 100, evolution_points |-> 0,
     sleep_state |-> DefaultSleepState, sleep_start_time |-> Null,
     sleep_quality |-> DefaultSleepQuality, light_on |-> DefaultLightOn]

findByUserId(userId) == {r \in table : r.user_id = userId}

\* the JavaScript object of a row as the driver returns it: no camelCase key
Object(r) ==
    [user_id |-> r.user_id, stage |-> r.stage,
     created_at |-> r.created_at, last_interacted_at |-> r.last_interacted_at,
     hunger |-> r.hunger, happiness |-> r.happiness, hygiene |-> r.hygiene,
     health |-> r.health, discipline |-> r.discipline, energy |-> r.energy,
     evolution_points |-> r.evolution_points,
     sleep_state |-> r.sleep_state, sleep_start_time |-> r.sleep_start_time,
     sleep_quality |-> r.sleep_quality, light_on |-> r.light_on,
     keys |-> {}, evolutionPoints |-> 0, sleepState |-> "awake",
     sleepStartTime |-> Null, sleepQuality |-> 0, lightOn |-> FALSE]

\* (variant: a window of 5 minutes)
NoDegradation_fiveMinutes(m) == m < 5

\* hoursDiff < 0.1
NoDegradation(m) == m < 6

\* (variant: 5 points per hour)
hungerDrop_fivePerHour(m) == m \div 12

\* (variant: Math.ceil instead of Math.floor)
hungerDrop_ceil(m) == (m + 5) \div 6

hungerDrop(m) == m \div 6

happinessDrop(m) == m \div 12

\* (variant: 7 points per hour)
hygieneDrop_perHour(m) == (m * 7) \div 60

\* Math.floor(hoursDiff * 7 * 2/3)
hygieneDrop(m) == (m * 7) \div 90

\* (variant: 10 points per hour)
healthDrop_tenPerHour(m) == m \div 6

healthDrop(m) == m \div 3

\* (variant: the README's threshold of 50)
allStatsGood_over50(o) ==
    o.hunger > 50 /\ o.happiness > 50 /\ o.hygiene > 50 /\ o.health > 50

allStatsGood(o) ==
    o.hunger > 70 /\ o.happiness > 70 /\ o.hygiene > 70 /\ o.health > 70

\* (variant: the stage follows from the age and the stats alone, whatever the
\* current stage)
newStage_byAge(o, age) ==
    IF age >= 1440 /\ allStatsGood(o) /\ o.discipline > 0 THEN "adult"
    ELSE IF age >= 480 /\ o.discipline > 0 THEN "teen"
    ELSE IF age >= 120 /\ allStatsGood(o) THEN "child"
    ELSE IF age >= 6 THEN "baby"
    ELSE o.stage

\* (variant: a sequence of ifs, each testing the stage the one before it set)
newStage_chained(o, age) ==
    LET s1 == IF o.stage = "egg" /\ age >= 6 THEN "baby" ELSE o.stage
        s2 == IF s1 = "baby" /\ age >= 120 /\ allStatsGood(o) THEN "child" ELSE s1
        s3 == IF s2 = "child" /\ age >= 480 /\ o.discipline > 0 THEN "teen" ELSE s2
    IN  IF s3 = "teen" /\ age >= 1440 /\ allStatsGood(o) THEN "adult" ELSE s3

\* (variant: a baby becomes a child after one hour)
newStage_oneHour(o, age) ==
    IF o.stage = "egg" /\ age >= 6 THEN "baby"
    ELSE IF o.stage = "baby" /\ age >= 60 /\ allStatsGood(o) THEN "child"
    ELSE IF o.stage = "child" /\ age >= 480 /\ o.discipline > 0 THEN "teen"
    ELSE IF o.stage = "teen" /\ age >= 1440 /\ allStatsGood(o) THEN "adult"
    ELSE o.stage

\* the stage chosen by the if / else-if chain; age is totalHoursAlive in minutes
newStage(o, age) ==
    IF o.stage = "egg" /\ age >= 6 THEN "baby"
    ELSE IF o.stage = "baby" /\ age >= 120 /\ allStatsGood(o) THEN "child"
    ELSE IF o.stage = "child" /\ age >= 480 /\ o.discipline > 0 THEN "teen"
    ELSE IF o.stage = "teen" /\ age >= 1440 /\ allStatsGood(o) THEN "adult"
    ELSE o.stage

\* (variant: points are taken back while the stats are not good)
calculateEvolution_penalty(o, m, t) ==
    [o EXCEPT !.stage = newStage(o, t - o.created_at),
              !.evolution_points =
                  IF allStatsGood(o) THEN o.evolution_points + (m \div 30)
                  ELSE o.evolution_points - (m \div 30)]

calculateEvolution(o, m, t) ==
    [o EXCEPT !.stage = newStage(o, t - o.created_at),
              !.evolution_points =
                  IF allStatsGood(o) THEN o.evolution_points + (m \div 30)
                  ELSE o.evolution_points]

\* (variant: no death condition)
deathStage_kept(o) == o.stage

\* the death condition: health 0 forces the stage
deathStage(o) == IF o.health = 0 THEN "dead" ELSE o.stage

calculatePassiveDegradation(r, t) ==
    LET m == t - r.last_interacted_at
        su == updateSleepState(r, t)
        hunger == Max(0, r.hunger - hungerDrop(m))
        hygiene == Max(0, r.hygiene - hygieneDrop(m))
        u1 == [Object(r) EXCEPT
                 !.keys = {"sleepState", "sleepStartTime", "sleepQuality"},
                 !.sleepState = su.sleep_state,
                 !.sleepStartTime = su.sleep_start_time,
                 !.sleepQuality = su.sleep_quality,
                 !.hunger = hunger,
                 !.happiness = Max(0, r.happiness - happinessDrop(m)),
                 !.hygiene = hygiene,
                 !.energy = Max(0, Min(100, r.energy + calculateEnergyChange(r, m))),
                 !.health = IF hunger = 0 \/ hygiene = 0
                            THEN Max(0, r.health - healthDrop(m))
                            ELSE r.health]
        u2 == [u1 EXCEPT !.stage = deathStage(u1)]
        u3 == IF u2.stage # "dead" THEN calculateEvolution(u2, m, t) ELSE u2
    IN  IF NoDegradation(m) THEN Object(r)
        ELSE [u3 EXCEPT !.keys = @ \cup {"lightOn"}, !.lightOn = r.light_on]

\* (variant: light_on = $12 without COALESCE, an undefined parameter giving
\* the column its default)
updateStats_lightReset(r, u, t) ==
    [r EXCEPT
       !.hunger = u.hunger,
       !.happiness = u.happiness,
       !.hygiene = u.hygiene,
       !.health = u.health,
       !.discipline = u.discipline,
       !.energy = u.energy,
       !.stage = u.stage,
       !.sleep_state = IF "sleepState" \in u.keys THEN u.sleepState ELSE @,
       !.sleep_start_time =
           IF "sleepStartTime" \in u.keys /\ u.sleepStartTime # Null
           THEN u.sleepStartTime ELSE @,
       !.light_on = IF "lightOn" \in u.keys THEN u.lightOn ELSE DefaultLightOn,
       !.sleep_quality = IF "sleepQuality" \in u.keys THEN u.sleepQuality ELSE @,
       !.last_interacted_at = t]

\* UPDATE tamagotchi SET col = COALESCE($n, col), ..., last_interacted_at =
\* CURRENT_TIMESTAMP: a parameter that is undefined or null keeps the column
updateStats(r, u, t) ==
    [r EXCEPT
       !.hunger = u.hunger,
       !.happiness = u.happiness,
       !.hygiene = u.hygiene,
       !.health = u.health,
       !.discipline = u.discipline,
       !.energy = u.energy,
       !.evolution_points =
           IF "evolutionPoints" \in u.keys THEN u.evolutionPoints ELSE @,
       !.stage = u.stage,
       !.sleep_state = IF "sleepState" \in u.keys THEN u.sleepState ELSE @,
       !.sleep_start_time =
           IF "sleepStartTime" \in u.keys /\ u.sleepStartTime # Null
           THEN u.sleepStartTime ELSE @,
       !.light_on = IF "lightOn" \in u.keys THEN u.lightOn ELSE @,
       !.sleep_quality = IF "sleepQuality" \in u.keys THEN u.sleepQuality ELSE @,
       !.last_interacted_at = t]

ValidActions == {"feed", "play", "clean", "heal", "discipline"}

ActionTypes == ValidActions \cup {"dance"}

\* (variant: the route passes every :type on to performAction)
validActionsIncludes_any(type) == TRUE

\* validActions.includes(type), the test of the route
validActionsIncludes(type) == type \in ValidActions

\* actionEffects[actionType] is defined: the test of performAction, made after
\* the row was read and recomputed and before anything is written
effectsDefined(actionType) ==
    actionType \in {"feed", "play", "clean", "heal", "discipline"}

\* (variant: the effects without Math.min / Math.max)
actionEffects_unclamped(cs, actionType) ==
    CASE actionType = "feed" ->
            [cs EXCEPT !.hunger = cs.hunger + 20, !.hygiene = cs.hygiene - 5]
      [] actionType = "play" ->
            [cs EXCEPT !.happiness = cs.happiness + 15, !.energy = cs.energy - 10]
      [] actionType = "clean" ->
            [cs EXCEPT !.hygiene = cs.hygiene + 30]
      [] actionType = "heal" ->
            [cs EXCEPT !.health = 100]
      [] actionType = "discipline" ->
            [cs EXCEPT !.discipline = cs.discipline + 10,
                       !.happiness = cs.happiness - 5]

\* (variant: feed leaves hygiene alone, discipline leaves happiness alone)
actionEffects_oneStat(cs, actionType) ==
    CASE actionType = "feed" ->
            [cs EXCEPT !.hunger = Min(100, cs.hunger + 20)]
      [] actionType = "play" ->
            [cs EXCEPT !.happiness = Min(100, cs.happiness + 15),
                       !.energy = Max(0, cs.energy - 10)]
      [] actionType = "clean" ->
            [cs EXCEPT !.hygiene = Min(100, cs.hygiene + 30)]
      [] actionType = "heal" ->
            [cs EXCEPT !.health = 100]
      [] actionType = "discipline" ->
            [cs EXCEPT !.discipline = Min(100, cs.discipline + 10)]

\* (variant: feeding spoils the pet: discipline - 5)
actionEffects_feedSpoils(cs, actionType) ==
    CASE actionType = "feed" ->
            [cs EXCEPT !.hunger = Min(100, cs.hunger + 20),
                       !.hygiene = Max(0, cs.hygiene - 5),
                       !.discipline = Max(0, cs.discipline - 5)]
      [] actionType = "play" ->
            [cs EXCEPT !.happiness = Min(100, cs.happiness + 15),
                       !.energy = Max(0, cs.energy - 10)]
      [] actionType = "clean" ->
            [cs EXCEPT !.hygiene = Min(100, cs.hygiene + 30)]
      [] actionType = "heal" ->
            [cs EXCEPT !.health = 100]
      [] actionType = "discipline" ->
            [cs EXCEPT !.discipline = Min(100, cs.discipline + 10),
                       !.happiness = Max(0, cs.happiness - 5)]

\* { ...currentState, ...actionEffects[actionType] }
actionEffects(cs, actionType) ==
    CASE actionType = "feed" ->
            [cs EXCEPT !.hunger = Min(100, cs.hunger + 20),
                       !.hygiene = Max(0, cs.hygiene - 5)]
      [] actionType = "play" ->
            [cs EXCEPT !.happiness = Min(100, cs.happiness + 15),
                       !.energy = Max(0, cs.energy - 10)]
      [] actionType = "clean" ->
            [cs EXCEPT !.hygiene = Min(100, cs.hygiene + 30)]
      [] actionType = "heal" ->
            [cs EXCEPT !.health = 100]
      [] actionType = "discipline" ->
            [cs EXCEPT !.discipline = Min(100, cs.discipline + 10),
                       !.happiness = Max(0, cs.happiness - 5)]

\* (variant: no guard)
IsDead_unchecked(r) == FALSE

\* the guard of performAction, toggleSleep and toggleLight on the row read
IsDead(r) == r.stage = "dead"

-----------------------------------------------------------------------------
(* Operations *)

\* no request is under way
Idle == [c \in Calls |-> [pc |-> "idle", userId |-> 0, read |-> {}, updates |-> {}]]

\* Rows the database can hold when the server starts.  Each is reached from
\* spawn: discipline once, then feed, clean, play and heal until the stats are
\* at their caps (play also drains energy to 0), then reads less than 6
\* minutes apart, which return the row as it is and only move
\* last_interacted_at.  evolution_points is never written, so it is 0.
SeedRow(stage, createdAt) ==
    [create(1, createdAt) EXCEPT
       !.stage = stage, !.last_interacted_at = StartTime,
       !.discipline = 10, !.energy = 0]

\* a baby 54 min old, a child 7 h 54 min old and a teen 23 h 54 min old that
\* was disciplined ten times
InitialTables ==
    {{}, {SeedRow("baby", StartTime - 54)}, {SeedRow("child", StartTime - 474)},
     {[SeedRow("teen", StartTime - 1434) EXCEPT !.discipline = 100]}}

Init ==
    /\ table \in InitialTables
    /\ now = StartTime
    /\ op = "init"
    /\ result = "ok"
    /\ ret = {}
    /\ prev = table
    /\ steps = 0
    /\ inflight = Idle

Step(name, res) ==
    /\ steps < MaxSteps
    /\ steps' = steps + 1
    /\ op' = name
    /\ result' = res
    /\ prev' = table
    /\ now' = now
    /\ inflight' = inflight

Fail(name, res) ==
    /\ Step(name, res)
    /\ ret' = {}
    /\ table' = table

\* time passes between two requests
Tick(d) ==
    /\ steps < MaxSteps
    /\ now + d <= MaxNow
    /\ now' = now + d
    /\ steps' = steps + 1
    /\ op' = "tick"
    /\ result' = "ok"
    /\ prev' = table
    /\ ret' = {}
    /\ table' = table
    /\ inflight' = inflight

\* POST /pet/spawn
Spawn(u) ==
    IF findByUserId(u) # {}
    THEN Fail("spawn", "DuplicatePet")
    ELSE /\ Step("spawn", "ok")
         /\ ret' = {}
         /\ table' = table \cup {create(u, now)}

\* (variant: a read for an owner without a pet creates the pet)
GetCurrentState_orCreate(u) ==
    IF findByUserId(u) = {}
    THEN /\ Step("get", "ok")
         /\ ret' = {}
         /\ table' = table \cup {create(u, now)}
    ELSE \E r \in findByUserId(u) :
            LET cs == calculatePassiveDegradation(r, now)
            IN  /\ Step("get", "ok")
                /\ ret' = {cs}
                /\ table' = (table \ {r}) \cup {updateStats(r, cs, now)}

\* GET /pet
GetCurrentState(u) ==
    IF findByUserId(u) = {}
    THEN Fail("get", "NotFound")
    ELSE \E r \in findByUserId(u) :
            LET cs == calculatePassiveDegradation(r, now)
            IN  /\ Step("get", "ok")
                /\ ret' = {cs}
                /\ table' = (table \ {r}) \cup {updateStats(r, cs, now)}

\* POST /pet/action/:type
PerformAction(u, actionType) ==
    IF ~validActionsIncludes(actionType)
    THEN Fail(actionType, "InvalidAction")
    ELSE IF findByUserId(u) = {}
    THEN Fail(actionType, "NotFound")
    ELSE \E r \in findByUserId(u) :
            IF IsDead(r)
            THEN Fail(actionType, "PetDead")
            ELSE IF ~effectsDefined(actionType)
            THEN Fail(actionType, "InvalidAction")
            ELSE LET cs == calculatePassiveDegradation(r, now)
                     updates == actionEffects(cs, actionType)
                 IN  /\ Step(actionType, "ok")
                     /\ ret' = {cs}
                     /\ table' = (table \ {r}) \cup {updateStats(r, updates, now)}

\* POST /pet/sleep
ToggleSleep(u) ==
    IF findByUserId(u) = {}
    THEN Fail("toggleSleep", "NotFound")
    ELSE \E r \in findByUserId(u) :
            IF IsDead(r)
            THEN Fail("toggleSleep", "PetDead")
            ELSE LET cs == calculatePassiveDegradation(r, now)
                     tg == handleManualSleepToggle(cs, now)
                     updates ==
                         [cs EXCEPT
                            !.keys = @ \cup {"sleepState", "sleepStartTime"},
                            !.sleepState = tg.sleep_state,
                            !.sleepStartTime = tg.sleep_start_time,
                            !.happiness =
                                Max(0, Min(100, cs.happiness + tg.happinessPenalty))]
                 IN  /\ Step("toggleSleep", "ok")
                     /\ ret' = {cs}
                     /\ table' = (table \ {r}) \cup {updateStats(r, updates, now)}

\* Tamagotchi.toggleLight
ToggleLight(u) ==
    IF findByUserId(u) = {}
    THEN Fail("toggleLight", "NotFound")
    ELSE \E r \in findByUserId(u) :
            IF IsDead(r)
            THEN Fail("toggleLight", "PetDead")
            ELSE LET cs == calculatePassiveDegradation(r, now)
                     tg == handleLightToggle(cs, ~cs.light_on, now)
                     updates ==
                         [cs EXCEPT
                            !.keys = @ \cup {"lightOn"},
                            !.lightOn = tg.light_on,
                            !.happiness =
                                Max(0, Min(100, cs.happiness + tg.happinessBonus))]
                 IN  /\ Step("toggleLight", "ok")
                     /\ ret' = {cs}
                     /\ table' = (table \ {r}) \cup {updateStats(r, updates, now)}

\* (variant: the old row is not deleted)
Revive_noDelete(u) ==
    /\ Step("revive", "ok")
    /\ ret' = {}
    /\ table' = table \cup {create(u, now)}

\* POST /pet/revive: DELETE the owner's row, then create
Revive(u) ==
    /\ Step("revive", "ok")
    /\ ret' = {}
    /\ table' = (table \ findByUserId(u)) \cup {create(u, now)}

InactivityCutoff == 4320

\* (variant: a pet last touched exactly 72 hours ago is killed too)
ForceInactivityDeath_orEqual ==
    /\ now % 360 = 0
    /\ Step("forceInactivityDeath", "ok")
    /\ ret' = {}
    /\ table' = {IF r.last_interacted_at <= now - InactivityCutoff /\ r.stage # "dead"
                 THEN [r EXCEPT !.stage = "dead", !.health = 0]
                 ELSE r : r \in table}

\* cron '0 */6 * * *': UPDATE ... SET stage = 'dead', health = 0 WHERE
\* last_interacted_at < NOW() - INTERVAL '72 hours' AND stage != 'dead'
ForceInactivityDeath ==
    /\ now % 360 = 0
    /\ Step("forceInactivityDeath", "ok")
    /\ ret' = {}
    /\ table' = {IF r.last_interacted_at < now - InactivityCutoff /\ r.stage # "dead"
                 THEN [r EXCEPT !.stage = "dead", !.health = 0]
                 ELSE r : r \in table}

\* (variant: every swept pet is written)
DailyEvolutionSweep_always ==
    /\ now % 1440 = 0
    /\ Step("dailyEvolutionSweep", "ok")
    /\ ret' = {calculatePassiveDegradation(r, now) :
                  r \in {x \in table : x.stage # "dead" /\ x.stage # "adult"}}
    /\ table' = {IF r.stage # "dead" /\ r.stage # "adult"
                 THEN updateStats(r, calculatePassiveDegradation(r, now), now)
                 ELSE r : r \in table}

\* cron '0 0 * * *': recompute every pet that is neither dead nor adult and
\* write it when its stage changed
DailyEvolutionSweep ==
    /\ now % 1440 = 0
    /\ Step("dailyEvolutionSweep", "ok")
    /\ ret' = {calculatePassiveDegradation(r, now) :
                  r \in {x \in table : x.stage # "dead" /\ x.stage # "adult"}}
    /\ table' = {IF r.stage # "dead" /\ r.stage # "adult"
                    /\ calculatePassiveDegradation(r, now).stage # r.stage
                 THEN updateStats(r, calculatePassiveDegradation(r, now), now)
                 ELSE r : r \in table}

Next ==
    \/ \E d \in Deltas : Tick(d)
    \/ \E u \in Owners : Spawn(u)
    \/ \E u \in Owners : GetCurrentState(u)
    \/ \E u \in Owners, a \in ActionTypes : PerformAction(u, a)
    \/ \E u \in Owners : ToggleSleep(u)
    \/ \E u \in Owners : ToggleLight(u)
    \/ \E u \in Owners : Revive(u)
    \/ ForceInactivityDeath
    \/ DailyEvolutionSweep

Spec == Init /\ [][Next]_vars

-----------------------------------------------------------------------------
(* Spawn and revive as the server runs them: each is two queries, and the   *)
(* queries of two requests can interleave.                                  *)

\* (variant: the table has no UNIQUE(user_id))
uniqueViolation_none(u) == FALSE

\* UNIQUE(user_id): an INSERT for an owner who has a row is rejected
uniqueViolation(u) == findByUserId(u) # {}

\* a step of request c that leaves it at pc
CallStep(c, name, res, pc, u) ==
    /\ steps < MaxSteps
    /\ steps' = steps + 1
    /\ op' = name
    /\ result' = res
    /\ prev' = table
    /\ now' = now
    /\ ret' = {}
    /\ inflight' = [inflight EXCEPT
                       ![c] = [pc |-> pc, userId |-> u, read |-> {}, updates |-> {}]]

\* POST /pet/spawn, first query: findByUserId
SpawnFind(c, u) ==
    /\ inflight[c].pc = "idle"
    /\ IF findByUserId(u) # {}
       THEN CallStep(c, "spawn", "DuplicatePet", "idle", 0) /\ table' = table
       ELSE CallStep(c, "spawnFind", "ok", "spawn", u) /\ table' = table

\* POST /pet/revive, first query: DELETE FROM tamagotchi WHERE user_id = $1
ReviveDelete(c, u) ==
    /\ inflight[c].pc = "idle"
    /\ CallStep(c, "reviveDelete", "ok", "revive", u)
    /\ table' = table \ findByUserId(u)

\* the second query of both: Tamagotchi.create
Insert(c) ==
    /\ inflight[c].pc \in {"spawn", "revive"}
    /\ LET u == inflight[c].userId
       IN  IF uniqueViolation(u)
           THEN CallStep(c, inflight[c].pc, "UniqueViolation", "idle", 0)
                /\ table' = table
           ELSE CallStep(c, inflight[c].pc, "ok", "idle", 0)
                /\ table' = table \cup {create(u, now)}

\* the action types the interleaved requests are drawn from
ConcurrentActions == {"feed", "play"}

\* a step of request c between its SELECT and its UPDATE: read is the row it
\* selected, updates the object it will pass to updateStats
HalfStep(c, name, res, pc, u, read, updates, returned) ==
    /\ steps < MaxSteps
    /\ steps' = steps + 1
    /\ op' = name
    /\ result' = res
    /\ prev' = table
    /\ now' = now
    /\ ret' = returned
    /\ inflight' = [inflight EXCEPT
                       ![c] = [pc |-> pc, userId |-> u, read |-> read,
                               updates |-> updates]]

\* POST /pet/action/:type up to the UPDATE: validation, findByUserId, the dead
\* guard, the recompute at the clock of the read and the action's effects
ActionRead(c, u, actionType) ==
    /\ inflight[c].pc = "idle"
    /\ table' = table
    /\ IF ~validActionsIncludes(actionType)
       THEN HalfStep(c, actionType, "InvalidAction", "idle", 0, {}, {}, {})
       ELSE IF findByUserId(u) = {}
       THEN HalfStep(c, actionType, "NotFound", "idle", 0, {}, {}, {})
       ELSE \E r \in findByUserId(u) :
               IF IsDead(r)
               THEN HalfStep(c, actionType, "PetDead", "idle", 0, {}, {}, {})
               ELSE LET cs == calculatePassiveDegradation(r, now)
                    IN  HalfStep(c, "actionRead", "ok", actionType, u, {r},
                                 {actionEffects(cs, actionType)}, {cs})

\* (variant: the UPDATE also requires the row to be the one that was read)
whereClause_versioned(row, u, read) ==
    row.user_id = u /\ row.last_interacted_at = read.last_interacted_at

\* WHERE user_id = $1: the only condition of the UPDATE
whereClause(row, u, read) == row.user_id = u

\* the UPDATE of updateStats, run for request c: the columns of the matching
\* row are overwritten with the request's values
UpdateOf(c, name) ==
    LET u == inflight[c].userId
        matched == {x \in table : \A rd \in inflight[c].read : whereClause(x, u, rd)}
    IN  IF matched = {}
        THEN /\ HalfStep(c, name, "NoRow", "idle", 0, {}, {}, inflight[c].updates)
             /\ table' = table
        ELSE /\ HalfStep(c, name, "ok", "idle", 0, {}, {}, inflight[c].updates)
             /\ table' = (table \ matched) \cup
                            {updateStats(x, w, now) : x \in matched, w \in inflight[c].updates}

\* POST /pet/action/:type, the UPDATE
ActionWrite(c) ==
    /\ inflight[c].pc \in ValidActions
    /\ UpdateOf(c, inflight[c].pc)

\* the daily job up to the UPDATE: the SELECT and the recompute of the pet
\* (the table holds one row per owner, and there is one owner)
SweepRead(c) ==
    /\ inflight[c].pc = "idle"
    /\ now % 1440 = 0
    /\ table' = table
    /\ LET swept == {x \in table : x.stage # "dead" /\ x.stage # "adult"}
       IN  IF swept = {}
           THEN HalfStep(c, "dailyEvolutionSweep", "ok", "idle", 0, {}, {}, {})
           ELSE \E r \in swept :
                   LET cs == calculatePassiveDegradation(r, now)
                   IN  IF cs.stage # r.stage
                       THEN HalfStep(c, "sweepRead", "ok", "sweep", r.user_id,
                                     {r}, {cs}, {cs})
                       ELSE HalfStep(c, "dailyEvolutionSweep", "ok", "idle", 0,
                                     {}, {}, {cs})

\* the daily job, the UPDATE of a pet whose stage changed
SweepWrite(c) ==
    /\ inflight[c].pc = "sweep"
    /\ UpdateOf(c, "dailyEvolutionSweep")

NextConcurrent ==
    \/ \E d \in Deltas : Tick(d)
    \/ \E c \in Calls, u \in Owners : SpawnFind(c, u)
    \/ \E c \in Calls, u \in Owners : ReviveDelete(c, u)
    \/ \E c \in Calls : Insert(c)
    \/ \E c \in Calls, u \in Owners, a \in ConcurrentActions : ActionRead(c, u, a)
    \/ \E c \in Calls : ActionWrite(c)
    \/ \E c \in Calls : SweepRead(c)
    \/ \E c \in Calls : SweepWrite(c)

SpecConcurrent == Init /\ [][NextConcurrent]_vars

-----------------------------------------------------------------------------
(* calculatePassiveDegradation as a function of the row and the clock:      *)
(* the inputs are drawn from bounded sets and the only step evaluates it.   *)

\* the time of the last write of the input rows (21:55 of day 0)
InputTime == 1315

\* clock readings, in minutes after the row's last_interacted_at
Elapsed == {5, 6, 7, 120, 300, 600, 720}

\* ages (minutes since created_at) a row of each stage can have when written:
\* the thresholds of calculateEvolution are lower bounds of the later stages;
\* an egg read again and again less than 6 minutes after its last write stays
\* an egg at any age
InputAges(stage) ==
    CASE stage = "egg" -> {0, 3, 1440}
      [] stage = "baby" -> {6, 115}
      [] stage = "child" -> {120, 475}
      [] stage = "teen" -> {480, 1435}
      [] stage = "adult" -> {1440}
      [] stage = "dead" -> {475}

InputSleep(sleepState) ==
    IF sleepState = "awake" THEN {Null, InputTime - 60} ELSE {InputTime}

\* input rows of stage st and sleep state ss: the stats take values at and
\* around the thresholds the function tests (0, 30, 70, 100)
InputRowsOf(st, ss) ==
    {[user_id |-> 1, stage |-> st,
      created_at |-> InputTime - age, last_interacted_at |-> InputTime,
      hunger |-> hu, happiness |-> ha, hygiene |-> hy, health |-> he,
      discipline |-> di, energy |-> en, evolution_points |-> 0,
      sleep_state |-> ss, sleep_start_time |-> sst,
      sleep_quality |-> IF ss = "asleep" /\ ha < 30 THEN 90 ELSE 100,
      light_on |-> lo] :
        age \in InputAges(st), sst \in InputSleep(ss),
        hu \in {0, 10, 71, 100}, ha \in {25, 100}, hy \in {0, 20, 100},
        he \in {0, 30, 100}, di \in {0, 10}, en \in {5, 95}, lo \in BOOLEAN}

\* health 0 is only ever written together with stage dead, and a teen or an
\* adult has been disciplined
InputOk(r) ==
    /\ (r.health = 0 => r.stage = "dead")
    /\ (r.stage \in {"teen", "adult"} => r.discipline > 0)

InitRecompute ==
    /\ \E st \in Stages, ss \in SleepStates :
          \E r \in InputRowsOf(st, ss) : InputOk(r) /\ table = {r}
    /\ now = InputTime
    /\ op = "init"
    /\ result = "ok"
    /\ ret = {}
    /\ prev = table
    /\ steps = 0
    /\ inflight = Idle

\* one evaluation per input row
RecomputeCall(e) ==
    /\ op = "init"
    /\ now' = InputTime + e
    /\ ret' = {calculatePassiveDegradation(r, now') : r \in table}
    /\ op' = "recompute"
    /\ result' = "ok"
    /\ UNCHANGED <<table, prev, steps, inflight>>

NextRecompute == \E e \in Elapsed : RecomputeCall(e)

SpecRecompute == InitRecompute /\ [][NextRecompute]_vars

-----------------------------------------------------------------------------
(* shouldBeSleeping over every stage and every hour of the day: the inputs  *)
(* are an awake pet of each stage, last written 6 minutes before, and a     *)
(* clock in each hour; the only step evaluates the function and the         *)
(* recompute that uses it.                                                  *)

\* midnight of the day the evaluations are made in
WindowDay == 1440

\* an awake pet of the stage, written 6 minutes before t
WindowRow(stage, age, t) ==
    [create(1, t - 6 - age) EXCEPT
       !.stage = stage, !.last_interacted_at = t - 6,
       !.discipline = 10,
       !.health = IF stage = "dead" THEN 0 ELSE 100]

InitSleepWindow ==
    /\ \E hour \in 0..23, minute \in {0, 59} : now = WindowDay + 60 * hour + minute
    /\ \E stage \in Stages : \E age \in InputAges(stage) :
          table = {WindowRow(stage, age, now)}
    /\ op = "init"
    /\ result = "ok"
    /\ ret = {}
    /\ prev = table
    /\ steps = 0
    /\ inflight = Idle

\* SleepSystem.shouldBeSleeping(pet.stage, gameTime.hour) and the recompute
\* of the pet at the same clock
ShouldBeSleepingCall ==
    /\ op = "init"
    /\ op' = "shouldBeSleeping"
    /\ \E r \in table :
          /\ result' = IF shouldBeSleeping(r.stage, HourOf(now)) THEN "true" ELSE "false"
          /\ ret' = {calculatePassiveDegradation(r, now)}
    /\ UNCHANGED <<table, now, prev, steps, inflight>>

NextSleepWindow == ShouldBeSleepingCall

SpecSleepWindow == InitSleepWindow /\ [][NextSleepWindow]_vars

-----------------------------------------------------------------------------
(* A page left open: the front end's timer reads the pet and nobody acts *)

\* the span of wall-clock time observed, in minutes
PollSpan == 60

\* the minutes between two reads are sums of these
PollDeltas == {5, 6}

\* a pet just spawned or one of the seeded pets, last written at StartTime
InitPolling ==
    /\ table \in (InitialTables \ {{}}) \cup {{create(1, StartTime)}}
    /\ now = StartTime
    /\ op = "init"
    /\ result = "ok"
    /\ ret = {}
    /\ prev = table
    /\ steps = 0
    /\ inflight = Idle

\* time passes until the timer fires again
PollWait(d) ==
    /\ now + d <= StartTime + PollSpan
    /\ now' = now + d
    /\ op' = "tick"
    /\ result' = "ok"
    /\ prev' = table
    /\ ret' = {}
    /\ UNCHANGED <<table, steps, inflight>>

\* GET /pet from the timer: the recompute and the write of its result
PollGet(u) ==
    /\ op = "tick"
    /\ \E r \in findByUserId(u) :
          LET cs == calculatePassiveDegradation(r, now)
          IN  /\ ret' = {cs}
              /\ table' = (table \ {r}) \cup {updateStats(r, cs, now)}
    /\ op' = "get"
    /\ result' = "ok"
    /\ prev' = table
    /\ UNCHANGED <<now, steps, inflight>>

NextPolling ==
    \/ \E d \in PollDeltas : PollWait(d)
    \/ \E u \in Owners : PollGet(u)

SpecPolling == InitPolling /\ [][NextPolling]_vars

-----------------------------------------------------------------------------
(* Daytime: a pet that is not awake is read again and again, each read 6    *)
(* minutes or more after the one before, while the clock stays between      *)
(* 08:00 and 20:00, outside the sleep window of every stage.                *)

\* 08:00 of day 1
DayStart == 1920

\* the reads of a run
MaxWakeReads == 4

\* minutes between two reads
WakeWaits == {6, 7, 60}

\* the hours that are in no stage's sleep window
Daytime(t) == HourOf(t) \in 8..19

\* a pet of the stage in sleep state ss, last written at DayStart, whose
\* sleep_start_time is `back` minutes earlier
WakeRow(stage, age, ss, back) ==
    [create(1, DayStart - 60 - age) EXCEPT
       !.stage = stage, !.last_interacted_at = DayStart,
       !.discipline = 10,
       !.health = IF stage = "dead" THEN 0 ELSE 100,
       !.sleep_state = ss, !.sleep_start_time = DayStart - back]

InitWake ==
    /\ \E stage \in Stages, ss \in SleepStates \ {"awake"}, back \in {0, 60} :
          \E age \in InputAges(stage) : table = {WakeRow(stage, age, ss, back)}
    /\ now = DayStart
    /\ op = "init"
    /\ result = "ok"
    /\ ret = {}
    /\ prev = table
    /\ steps = 0
    /\ inflight = Idle

\* time passes until the next read
WakeWait(d) ==
    /\ op # "tick"
    /\ steps < MaxWakeReads
    /\ Daytime(now + d)
    /\ now' = now + d
    /\ op' = "tick"
    /\ result' = "ok"
    /\ prev' = table
    /\ ret' = {}
    /\ UNCHANGED <<table, steps, inflight>>

\* GET /pet: the recompute and the write of its result; steps counts the reads
WakeGet(u) ==
    /\ op = "tick"
    /\ \E r \in findByUserId(u) :
          LET cs == calculatePassiveDegradation(r, now)
          IN  /\ ret' = {cs}
              /\ table' = (table \ {r}) \cup {updateStats(r, cs, now)}
    /\ op' = "get"
    /\ result' = "ok"
    /\ prev' = table
    /\ steps' = steps + 1
    /\ UNCHANGED <<now, inflight>>

NextWake ==
    \/ \E d \in WakeWaits : WakeWait(d)
    \/ \E u \in Owners : WakeGet(u)

SpecWake == InitWake /\ [][NextWake]_vars

-----------------------------------------------------------------------------
(* Reads at t1 and t2 against a read at t2 alone: the table holds the pet   *)
(* as the reads leave it, prev keeps the row as it was at t0, and ret holds *)
(* what a read at the present clock returns when it is the first since t0.  *)

\* the reads of a run
MaxReads == 2

\* minutes from t0 to t1 and from t1 to t2
ReadWaits == {0, 5, 6, 7, 120, 300}

InitReads ==
    /\ \E st \in {"baby", "teen"} :
          \E r \in InputRowsOf(st, "awake") : InputOk(r) /\ table = {r}
    /\ now = InputTime
    /\ op = "init"
    /\ result = "ok"
    /\ ret = {}
    /\ prev = table
    /\ steps = 0
    /\ inflight = Idle

\* time passes until the next read
ReadWait(d) ==
    /\ op # "tick"
    /\ steps < MaxReads
    /\ now' = now + d
    /\ op' = "tick"
    /\ result' = "ok"
    /\ UNCHANGED <<table, prev, ret, steps, inflight>>

\* GET /pet: the recompute of the stored row and the write of its result
ReadGet(u) ==
    /\ op = "tick"
    /\ \E r \in findByUserId(u) :
          table' = (table \ {r}) \cup
                      {updateStats(r, calculatePassiveDegradation(r, now), now)}
    /\ ret' = {calculatePassiveDegradation(b, now) : b \in prev}
    /\ op' = "get"
    /\ result' = "ok"
    /\ steps' = steps + 1
    /\ UNCHANGED <<now, prev, inflight>>

NextReads ==
    \/ \E d \in ReadWaits : ReadWait(d)
    \/ \E u \in Owners : ReadGet(u)

SpecReads == InitReads /\ [][NextReads]_vars

-----------------------------------------------------------------------------
(* Properties *)

StageRank(stage) ==
    CASE stage = "egg" -> 0
      [] stage = "baby" -> 1
      [] stage = "child" -> 2
      [] stage = "teen" -> 3
      [] stage = "adult" -> 4
      [] stage = "dead" -> 5

\* the row of the same owner before the last operation
Before(r) == {x \in prev : x.user_id = r.user_id}

\* C1: in every persisted pet row each of hunger, happiness, hygiene, health,
\* discipline and energy is an integer within [0,100].
C1_Clamping ==
    \A r \in table :
        /\ r.hunger \in 0..100
        /\ r.happiness \in 0..100
        /\ r.hygiene \in 0..100
        /\ r.health \in 0..100
        /\ r.discipline \in 0..100
        /\ r.energy \in 0..100

\* a read after ten hours: hunger and energy are cut off at 0
C1_Witness ==
    /\ op = "get" /\ result = "ok"
    /\ \E r \in table : \E b \in Before(r) :
          /\ now - b.last_interacted_at >= 600
          /\ b.hunger = 100 /\ r.hunger = 0
          /\ b.energy = 100 /\ r.energy = 0

\* C2: when the stored pet is dead, applyAction (every action type),
\* toggleSleep and toggleLight fail with PetDead and leave the stored row
\* unchanged; among the player's commands only revive succeeds.
C2_DeathAbsorbing ==
    (\E b \in prev : b.stage = "dead") =>
        /\ op \in ValidActions \cup {"toggleSleep", "toggleLight"} =>
              (result = "PetDead" /\ table = prev)
        /\ (op \in ValidActions \cup {"toggleSleep", "toggleLight", "spawn", "revive"}
              /\ result = "ok") => op = "revive"

C2_Witness ==
    /\ \E b \in prev : b.stage = "dead" /\ b.health = 0
    /\ op = "heal" /\ result = "PetDead" /\ table = prev

\* C3: except in revive, the persisted stage never moves to an earlier stage:
\* it stays, moves forward along egg, baby, child, teen, adult, or becomes
\* dead; once dead it stays dead, and the recompute of a dead row is dead.
C3_StageMonotone ==
    op # "revive" =>
        \A r \in table : \A b \in Before(r) :
            /\ r.stage = "dead" \/ StageRank(r.stage) >= StageRank(b.stage)
            /\ b.stage = "dead" => (r.stage = "dead" /\ \A o \in ret : o.stage = "dead")

\* a teen that a read has made an adult
C3_Witness ==
    /\ op = "get"
    /\ \E r \in table : \E b \in Before(r) : b.stage = "teen" /\ r.stage = "adult"

\* the input row and the clock of the evaluation of calculatePassiveDegradation
Evaluated == op = "recompute" /\ ret # {}

\* C4: with less than 6 minutes since last_interacted_at the recompute returns
\* its input, identical in every field.
C4_NoOpWindow ==
    Evaluated =>
        \A r \in table : \A o \in ret :
            now - r.last_interacted_at < 6 =>
                /\ o.stage = r.stage
                /\ o.hunger = r.hunger /\ o.happiness = r.happiness
                /\ o.hygiene = r.hygiene /\ o.health = r.health
                /\ o.discipline = r.discipline /\ o.energy = r.energy
                /\ o.evolution_points = r.evolution_points
                /\ o.sleep_state = r.sleep_state
                /\ o.sleep_start_time = r.sleep_start_time
                /\ o.sleep_quality = r.sleep_quality
                /\ o.light_on = r.light_on
                /\ o.created_at = r.created_at
                /\ o.last_interacted_at = r.last_interacted_at
                /\ o.keys = {}

\* five minutes after the write, a hungry egg that would otherwise hatch and
\* lose health
C4_Witness ==
    /\ Evaluated
    /\ \E r \in table :
          /\ now - r.last_interacted_at = 5
          /\ now - r.created_at >= 6
          /\ r.stage = "egg" /\ r.hunger = 0 /\ r.health = 30

\* C5: for h >= 0.1 hour the recompute returns hunger - floor(10 h),
\* happiness - floor(5 h) and hygiene - floor(h * 7 * 2/3), each floored at 0.
C5_StatDecay ==
    Evaluated =>
        \A r \in table : \A o \in ret :
            LET m == now - r.last_interacted_at
            IN  m >= 6 =>
                  /\ o.hunger = Max(0, r.hunger - ((10 * m) \div 60))
                  /\ o.happiness = Max(0, r.happiness - ((5 * m) \div 60))
                  /\ o.hygiene = Max(0, r.hygiene - ((m * 7 * 2) \div (60 * 3)))

\* hunger 100 and hygiene 100 after five hours: 50 and 77
C5_Witness ==
    /\ Evaluated
    /\ \E r \in table : \E o \in ret :
          /\ now - r.last_interacted_at = 300
          /\ r.hunger = 100 /\ r.hygiene = 100
          /\ o.hunger = 50 /\ o.hygiene = 77

\* C6: for h >= 0.1 hour health is unchanged when post-decay hunger and hygiene
\* are both above 0, and is otherwise health - floor(20 h), floored at 0.
C6_HealthDecay ==
    Evaluated =>
        \A r \in table : \A o \in ret :
            LET m == now - r.last_interacted_at
            IN  m >= 6 =>
                  o.health = IF o.hunger > 0 /\ o.hygiene > 0
                             THEN r.health
                             ELSE Max(0, r.health - ((20 * m) \div 60))

\* a pet at hunger 0 left two more hours loses 40 health
C6_Witness ==
    /\ Evaluated
    /\ \E r \in table : \E o \in ret :
          /\ now - r.last_interacted_at = 120
          /\ r.hunger = 0 /\ r.hygiene = 100 /\ r.health = 100
          /\ o.health = 60

\* C7: when the recompute (h >= 0.1 hour) produces health 0 the returned stage
\* is dead and evolution is skipped: evolution_points are the input's.
C7_DeathRule ==
    Evaluated =>
        \A r \in table : \A o \in ret :
            (now - r.last_interacted_at >= 6 /\ o.health = 0) =>
                (o.stage = "dead" /\ o.evolution_points = r.evolution_points)

\* a child old enough to become a teen starves instead
C7_Witness ==
    /\ Evaluated
    /\ \E r \in table : \E o \in ret :
          /\ r.stage = "child" /\ r.discipline > 0 /\ r.health = 30
          /\ now - r.created_at >= 480
          /\ o.health = 0 /\ o.stage = "dead"

C9_EggHatches ==
    (op = "get" /\ result = "ok") =>
        \A r \in table : \A b \in Before(r) :
            (b.stage = "egg" /\ now - b.created_at >= 6) => r.stage # "egg"

\* C10: an action on a non-dead pet persists the recomputed values with exactly
\* that action's deltas: feed hunger +20 (cap 100) and hygiene -5 (floor 0);
\* play happiness +15 and energy -10; clean hygiene +30; heal health 100;
\* discipline discipline +10 and happiness -5; every other stat is the
\* recomputed one.
C10_ActionEffects ==
    (op \in ValidActions /\ result = "ok") =>
        \A r \in table : \A R \in ret :
            /\ r.hunger = IF op = "feed" THEN Min(100, R.hunger + 20) ELSE R.hunger
            /\ r.hygiene = CASE op = "feed" -> Max(0, R.hygiene - 5)
                             [] op = "clean" -> Min(100, R.hygiene + 30)
                             [] OTHER -> R.hygiene
            /\ r.happiness = CASE op = "play" -> Min(100, R.happiness + 15)
                               [] op = "discipline" -> Max(0, R.happiness - 5)
                               [] OTHER -> R.happiness
            /\ r.energy = IF op = "play" THEN Max(0, R.energy - 10) ELSE R.energy
            /\ r.health = IF op = "heal" THEN 100 ELSE R.health
            /\ r.discipline =
                  IF op = "discipline" THEN Min(100, R.discipline + 10) ELSE R.discipline

\* a feed two hours after the last write: hunger 80 + 20, hygiene 91 - 5
C10_Witness ==
    /\ op = "feed" /\ result = "ok"
    /\ \E r \in table : \E b \in Before(r) : \E R \in ret :
          /\ now - b.last_interacted_at = 120
          /\ b.hunger = 100 /\ R.hunger = 80 /\ r.hunger = 100
          /\ R.hygiene = 91 /\ r.hygiene = 86

\* C11: an action whose type is outside {feed, play, clean, heal, discipline}
\* fails with InvalidAction and leaves the table as it was: no decay is
\* written and last_interacted_at is not reset.
C11_UnknownAction ==
    (op \in ActionTypes \ {"feed", "play", "clean", "heal", "discipline"}) =>
        (result = "InvalidAction" /\ table = prev /\ ret = {})

\* an unknown action two hours after the last write of a live pet
C11_Witness ==
    /\ op = "dance" /\ result = "InvalidAction"
    /\ \E r \in table :
          /\ r.stage # "dead"
          /\ now - r.last_interacted_at >= 120
          /\ r.hunger = 100
          /\ r \in prev

\* C12: under every interleaving of spawn and revive requests an owner has at
\* most one row, and a spawn for an owner who has a row fails and creates
\* nothing.
C12_OnePetPerOwner ==
    /\ \A u \in Owners : Cardinality(findByUserId(u)) <= 1
    /\ \A u \in Owners :
          (op = "spawn" /\ \E b \in prev : b.user_id = u) =>
              (result \in {"DuplicatePet", "UniqueViolation"} /\ table = prev)

\* two spawns both found no row; the INSERT of the second one is rejected
C12_Witness ==
    /\ op = "spawn" /\ result = "UniqueViolation"
    /\ \E c \in Calls : inflight[c].pc = "idle"
    /\ \A u \in Owners : Cardinality(findByUserId(u)) = 1
    /\ \E r \in table : r.stage = "egg" /\ r.created_at < now

\* C13: revive on a pet of any stage leaves the owner exactly one row: an
\* egg with hunger, happiness, hygiene, health and energy 100, discipline 0,
\* evolution_points 0, sleep_state awake and created_at = last_interacted_at
\* = the time of the call.
C13_Revive ==
    (op = "revive" /\ result = "ok") =>
        \A u \in Owners :
            /\ Cardinality(findByUserId(u)) = 1
            /\ \A r \in findByUserId(u) :
                  /\ r.stage = "egg"
                  /\ r.hunger = 100 /\ r.happiness = 100 /\ r.hygiene = 100
                  /\ r.health = 100 /\ r.energy = 100
                  /\ r.discipline = 0 /\ r.evolution_points = 0
                  /\ r.sleep_state = "awake"
                  /\ r.created_at = now /\ r.last_interacted_at = now

\* a dead pet is revived
C13_Witness ==
    /\ op = "revive" /\ result = "ok"
    /\ \E b \in prev : b.stage = "dead" /\ b.health = 0 /\ b.created_at < now
    /\ \E r \in table : r.stage = "egg" /\ r.created_at = now

\* C14: after getCurrentState with at least 0.1 hour elapsed every field of
\* the stored row is the one the recompute of that call returned,
\* evolution_points included, and last_interacted_at is the time of the call.
C14_PersistsRecompute ==
    (op = "get" /\ result = "ok") =>
        \A r \in table : \A b \in Before(r) : \A o \in ret :
            now - b.last_interacted_at >= 6 =>
                /\ r.hunger = o.hunger /\ r.happiness = o.happiness
                /\ r.hygiene = o.hygiene /\ r.health = o.health
                /\ r.energy = o.energy /\ r.discipline = o.discipline
                /\ r.stage = o.stage
                /\ r.evolution_points = o.evolution_points
                /\ r.sleep_state = o.sleepState
                /\ r.sleep_start_time = o.sleepStartTime
                /\ r.sleep_quality = o.sleepQuality
                /\ r.light_on = o.lightOn
                /\ r.last_interacted_at = now

\* C15: except in revive, evolution_points is never negative and never
\* decreases: the stored value is at least the one stored before, and the
\* value a recompute returns is at least the stored one it started from.
C15_PointsMonotone ==
    op # "revive" =>
        \A r \in table :
            /\ r.evolution_points >= 0
            /\ \A b \in Before(r) :
                  /\ r.evolution_points >= b.evolution_points
                  /\ \A o \in ret :
                        o.user_id = b.user_id =>
                            o.evolution_points >= b.evolution_points

\* a read whose recompute earns points
C15_Witness ==
    /\ op = "get" /\ result = "ok"
    /\ \E r \in table : \E b \in Before(r) : \E o \in ret :
          /\ o.evolution_points > b.evolution_points
          /\ r.evolution_points >= b.evolution_points

C17_WitnessKept ==
    /\ op = "forceInactivityDeath"
    /\ \E r \in table :
          r.stage # "dead" /\ now - r.last_interacted_at = 72 * 60 /\ r \in prev

C18_WitnessWritten ==
    /\ op = "dailyEvolutionSweep"
    /\ \E r \in table : \E b \in Before(r) :
          /\ b.stage = "child" /\ r.stage = "teen"
          /\ b.last_interacted_at < now /\ r.last_interacted_at = now

\* the edges of the sleep state machine that a recompute takes
RecomputeEdges ==
    {<<"awake", "falling_asleep">>, <<"falling_asleep", "asleep">>,
     <<"falling_asleep", "awake">>, <<"asleep", "waking_up">>,
     <<"waking_up", "awake">>}

\* the edges that toggleSleep takes
ToggleEdges ==
    {<<"awake", "falling_asleep">>, <<"falling_asleep", "awake">>,
     <<"asleep", "awake">>, <<"waking_up", "awake">>}

\* C19: a recompute changes sleep_state only along awake -> falling_asleep,
\* falling_asleep -> asleep, falling_asleep -> awake, asleep -> waking_up or
\* waking_up -> awake; toggleSleep only along awake -> falling_asleep or
\* {falling_asleep, asleep, waking_up} -> awake; no operation stores another
\* change.
C19_SleepEdges ==
    op # "revive" =>
        \A r \in table : \A b \in Before(r) :
            /\ \A o \in ret :
                  ("sleepState" \in o.keys /\ o.sleepState # b.sleep_state) =>
                      <<b.sleep_state, o.sleepState>> \in RecomputeEdges
            /\ r.sleep_state # b.sleep_state =>
                  IF op = "toggleSleep"
                  THEN <<b.sleep_state, r.sleep_state>> \in ToggleEdges
                  ELSE <<b.sleep_state, r.sleep_state>> \in RecomputeEdges

\* a sleeping pet is read after its sleep window has ended
C19_Witness ==
    /\ op = "get"
    /\ \E r \in table : \E b \in Before(r) :
          b.sleep_state = "asleep" /\ r.sleep_state = "waking_up"

\* a toggle on a pet that the same call's recompute would put to sleep
C19_WitnessToggle ==
    /\ op = "toggleSleep" /\ result = "ok"
    /\ \E r \in table : \E b \in Before(r) : \E o \in ret :
          /\ b.sleep_state = "falling_asleep" /\ o.sleepState = "asleep"
          /\ r.sleep_state = "awake"

\* C20: in every stored row sleep_start_time is non-null iff sleep_state is
\* falling_asleep, asleep or waking_up.
C20_SleepStartTime ==
    \A r \in table :
        (r.sleep_start_time # Null) <=>
            (r.sleep_state \in {"falling_asleep", "asleep", "waking_up"})

\* the sleep window of each stage, hour by hour
InWindow(stage, hour) ==
    CASE stage = "baby" -> hour \in (20..23) \cup (0..7)
      [] stage = "child" -> hour \in (20..23) \cup (0..6)
      [] stage = "teen" -> hour \in (21..23) \cup (0..6)
      [] stage = "adult" -> hour \in (22..23) \cup (0..5)
      [] OTHER -> FALSE

\* C21: a recompute moves a pet from falling_asleep to asleep only when at
\* least 5 minutes have passed since sleep_start_time and the hour is still
\* inside the sleep window of the pet's stage.
C21_FallAsleepInWindow ==
    Evaluated =>
        \A r \in table : \A o \in ret :
            (r.sleep_state = "falling_asleep" /\ "sleepState" \in o.keys
                /\ o.sleepState = "asleep") =>
                /\ now - DateOf(r.sleep_start_time) >= 5
                /\ InWindow(r.stage, HourOf(now))

\* C22: for h >= 0.1 hour the returned energy is energy + d within [0,100],
\* d chosen by the sleep state this recompute results in: asleep gives
\* floor(floor(10 h) * sleep_quality / 100) with this evaluation's
\* sleep_quality, falling_asleep or waking_up floor(5 h), awake -floor(15 h).
C22_EnergyByResultingState ==
    Evaluated =>
        \A r \in table : \A o \in ret :
            LET m == now - r.last_interacted_at
                d == CASE o.sleepState = "asleep" ->
                            (((10 * m) \div 60) * o.sleepQuality) \div 100
                       [] o.sleepState \in {"falling_asleep", "waking_up"} ->
                            (5 * m) \div 60
                       [] o.sleepState = "awake" -> 0 - ((15 * m) \div 60)
            IN  m >= 6 => o.energy = Max(0, Min(100, r.energy + d))

\* C27: each recompute returns sleep_quality = max(0, 100 - 30 [asleep and
\* light on] - 20 [interrupted] - 15 [hunger < 30] - 15 [hygiene < 30]
\* - 10 [happiness < 30]) of the snapshot it was given, whatever the stored
\* sleep_quality, and the result is within [0,100].
C27_SleepQuality ==
    Evaluated =>
        \A r \in table : \A o \in ret :
            LET interrupted ==
                    /\ r.sleep_state = "falling_asleep"
                    /\ o.sleepState = "awake"
                q == 100 - (IF r.sleep_state = "asleep" /\ r.light_on THEN 30 ELSE 0)
                         - (IF interrupted THEN 20 ELSE 0)
                         - (IF r.hunger < 30 THEN 15 ELSE 0)
                         - (IF r.hygiene < 30 THEN 15 ELSE 0)
                         - (IF r.happiness < 30 THEN 10 ELSE 0)
            IN  now - r.last_interacted_at >= 6 =>
                    /\ o.sleepQuality = Max(0, q)
                    /\ o.sleepQuality \in 0..100

\* a sleeping pet, light on, hungry, dirty and unhappy, stored quality 90:
\* 100 - 30 - 15 - 15 - 10
C27_Witness ==
    /\ Evaluated
    /\ \E r \in table : \E o \in ret :
          /\ r.sleep_state = "asleep" /\ r.light_on
          /\ r.hunger = 10 /\ r.hygiene = 20 /\ r.happiness = 25
          /\ r.sleep_quality = 90
          /\ o.sleepQuality = 30

\* C23: toggleSleep on a stored awake pet stores falling_asleep with
\* sleep_start_time = now and the recomputed happiness; on any other pet it
\* stores awake with sleep_start_time null and happiness - 10 (floor 0) if
\* the pet was asleep, - 5 if it was falling_asleep or waking_up.
C23_ToggleSleep ==
    (op = "toggleSleep" /\ result = "ok") =>
        \A r \in table : \A b \in Before(r) : \A o \in ret :
            IF b.sleep_state = "awake"
            THEN /\ r.sleep_state = "falling_asleep"
                 /\ r.sleep_start_time = now
                 /\ r.happiness = o.happiness
            ELSE /\ r.sleep_state = "awake"
                 /\ r.sleep_start_time = Null
                 /\ r.happiness =
                       Max(0, o.happiness - (IF b.sleep_state = "asleep" THEN 10 ELSE 5))

\* C24: toggleLight stores the opposite of the stored light_on, and the
\* recomputed happiness + 5 if the hour is inside the stage's sleep window
\* and the light goes off, - 5 if the pet is asleep and the light goes on,
\* unchanged otherwise, within [0,100]; every other stat is the recomputed
\* one.
C24_ToggleLight ==
    (op = "toggleLight" /\ result = "ok") =>
        \A r \in table : \A b \in Before(r) : \A o \in ret :
            LET bonus == IF InWindow(o.stage, HourOf(now)) /\ b.light_on THEN 5
                         ELSE IF b.sleep_state = "asleep" /\ ~b.light_on THEN 0 - 5
                         ELSE 0
            IN  /\ r.light_on = ~b.light_on
                /\ r.happiness = Max(0, Min(100, o.happiness + bonus))
                /\ r.hunger = o.hunger /\ r.hygiene = o.hygiene
                /\ r.health = o.health /\ r.energy = o.energy
                /\ r.discipline = o.discipline /\ r.stage = o.stage

\* the light goes off at night, two hours after the last write: 90 + 5
C24_Witness ==
    /\ op = "toggleLight" /\ result = "ok"
    /\ \E r \in table : \E b \in Before(r) : \E o \in ret :
          /\ b.light_on /\ ~r.light_on
          /\ o.happiness = 90 /\ r.happiness = 95

\* the light goes on over a sleeping pet
C24_WitnessOn ==
    /\ op = "toggleLight" /\ result = "ok"
    /\ \E r \in table : \E b \in Before(r) : \E o \in ret :
          /\ ~b.light_on /\ r.light_on /\ b.sleep_state = "asleep"
          /\ r.happiness = o.happiness - 5

\* C25: light_on changes only in toggleLight: a recompute returns the stored
\* value, and a read, an action, toggleSleep and the two sweeps store it
\* again.
C25_LightOnFrame ==
    op \notin {"toggleLight", "revive"} =>
        \A r \in table : \A b \in Before(r) :
            /\ r.light_on = b.light_on
            /\ \A o \in ret :
                  o.user_id = b.user_id =>
                      /\ o.light_on = b.light_on
                      /\ "lightOn" \in o.keys => o.lightOn = b.light_on

\* a read two hours after the light was turned off
C25_Witness ==
    /\ op = "get" /\ result = "ok"
    /\ \E r \in table : \E b \in Before(r) :
          /\ ~b.light_on /\ ~r.light_on
          /\ now - b.last_interacted_at >= 120

\* C26: discipline changes only in a discipline action, which adds 10 up to
\* 100; a recompute returns it as stored and every other operation but
\* revive stores it again.
C26_DisciplineFrame ==
    op # "revive" =>
        \A r \in table : \A b \in Before(r) :
            /\ r.discipline =
                  IF op = "discipline" /\ result = "ok"
                  THEN Min(100, b.discipline + 10) ELSE b.discipline
            /\ r.discipline >= b.discipline
            /\ \A o \in ret : o.user_id = b.user_id => o.discipline = b.discipline

\* a feed ten hours after the last write leaves discipline 10
C26_Witness ==
    /\ op = "feed" /\ result = "ok"
    /\ \E r \in table : \E b \in Before(r) :
          /\ now - b.last_interacted_at >= 600
          /\ b.discipline = 10 /\ r.discipline = 10

\* a discipline action at the cap
C26_WitnessCap ==
    /\ op = "discipline" /\ result = "ok"
    /\ \E r \in table : \E b \in Before(r) :
          b.discipline = 100 /\ r.discipline = 100

\* C28: shouldBeSleeping(stage, hour) is true exactly for baby at 20..23 and
\* 0..7, child at 20..23 and 0..6, teen at 21..23 and 0..6, adult at 22..23
\* and 0..5, never for egg and dead; the recompute of an awake pet returns
\* falling_asleep exactly then, so never for an egg or a dead pet.
C28_SleepWindows ==
    op = "shouldBeSleeping" =>
        \A r \in table :
            LET hour == (now \div 60) % 24
                inside ==
                    \/ r.stage = "baby" /\ hour \in (20..23) \cup (0..7)
                    \/ r.stage = "child" /\ hour \in (20..23) \cup (0..6)
                    \/ r.stage = "teen" /\ hour \in (21..23) \cup (0..6)
                    \/ r.stage = "adult" /\ hour \in (22..23) \cup (0..5)
            IN  /\ result = (IF inside THEN "true" ELSE "false")
                /\ \A o \in ret :
                      /\ (o.sleepState = "falling_asleep") <=> inside
                      /\ r.stage \in {"egg", "dead"} => o.sleepState = "awake"

\* a baby at 07:59 is still in its window, and falls asleep
C28_Witness ==
    /\ op = "shouldBeSleeping" /\ result = "true"
    /\ now = WindowDay + 60 * 7 + 59
    /\ \E r \in table : \E o \in ret :
          r.stage = "baby" /\ o.sleepState = "falling_asleep"

\* C29: no version check or lock guards the UPDATE: whenever a request's
\* write finds the owner's row it succeeds and the stored stats and stage are
\* the ones that request computed from the baseline it read, whatever was
\* written in between; so when two requests read the same baseline the
\* earlier writer's effect is absent from the final row.
C29_LostUpdate ==
    (op \in ConcurrentActions \cup {"dailyEvolutionSweep"}
        /\ result \in {"ok", "NoRow"} /\ ret # {}
        /\ \E c \in Calls : inflight[c].pc = "idle") =>
        \A b \in prev :
            \/ op = "dailyEvolutionSweep" /\ table = prev
                  /\ \A o \in ret : o.stage = b.stage
            \/ /\ result = "ok"
               /\ \A r \in table : \A o \in ret :
                     /\ r.hunger = o.hunger /\ r.happiness = o.happiness
                     /\ r.hygiene = o.hygiene /\ r.health = o.health
                     /\ r.energy = o.energy /\ r.discipline = o.discipline
                     /\ r.stage = o.stage

\* feed and play read the same baseline two hours after its last write; feed
\* wrote hunger 100; play now writes the baseline's hunger 80
C29_Witness ==
    /\ op = "play" /\ result = "ok"
    /\ \E r \in table : \E b \in Before(r) :
          /\ b.last_interacted_at = now
          /\ b.hunger = 100 /\ r.hunger = 80
          /\ r.happiness = 100

\* the sweep writes over a feed that read the same baseline
C29_WitnessSweep ==
    /\ op = "dailyEvolutionSweep" /\ result = "ok"
    /\ \E r \in table : \E b \in Before(r) :
          /\ b.last_interacted_at = now
          /\ b.hygiene = 95 /\ r.hygiene = 100
          /\ b.stage = r.stage

\* C30: a pet that receives no action and starts the hour with hunger 100 has
\* a persisted hunger below 100 once the hour has passed and the pet is read,
\* whatever the reads in between (reads less than 6 minutes apart included).
C30_ReadsDoNotPostponeDecay ==
    (op = "get" /\ now = StartTime + PollSpan) =>
        \A r \in table : r.hunger < 100

\* C31: one recompute advances the stage by at most one position along egg,
\* baby, child, teen, adult, whatever the pet's age: the stage returned is
\* dead, the input stage or the one after it.
C31_OneStagePerRecompute ==
    Evaluated =>
        \A r \in table : \A o \in ret :
            \/ o.stage = "dead"
            \/ o.stage = r.stage
            \/ StageRank(o.stage) = StageRank(r.stage) + 1

\* a disciplined egg more than a day old and in good shape becomes a baby
C31_Witness ==
    /\ Evaluated
    /\ \E r \in table : \E o \in ret :
          /\ r.stage = "egg" /\ now - r.created_at >= 1440
          /\ o.discipline > 0 /\ allStatsGood(o)
          /\ o.stage = "baby"

\* C32: for an owner without a pet row a read, an action of a valid type, a
\* sleep toggle and a light toggle each fail with the not-found error and
\* leave the table as it was; a row for that owner appears only in spawn or
\* revive.
C32_NoPetNotFound ==
    \A u \in Owners :
        ({x \in prev : x.user_id = u} = {}) =>
            /\ op \in ValidActions \cup {"get", "toggleSleep", "toggleLight"} =>
                  (result = "NotFound" /\ table = prev)
            /\ findByUserId(u) # {} => (op \in {"spawn", "revive"} /\ result = "ok")

\* the pet was never spawned and a light toggle is refused
C32_Witness ==
    /\ op = "toggleLight" /\ result = "NotFound"
    /\ prev = {} /\ table = {}
    /\ steps >= 2

\* C33: in every persisted row stage = dead implies health = 0.
C33_DeadZeroHealth ==
    \A r \in table : r.stage = "dead" => r.health = 0

\* C34: when the recompute made inside an action or a toggle on a stored
\* non-dead pet returns stage = dead, the call fails with PetDead and the row
\* holds the recomputed death without any effect of the action or toggle.
C34_NoActionOnDying ==
    (op \in ValidActions \cup {"toggleSleep", "toggleLight"}
        /\ \E o \in ret : o.stage = "dead") =>
        /\ result = "PetDead"
        /\ \A r \in table : \A o \in ret : \A b \in Before(r) :
              /\ r.hunger = o.hunger /\ r.happiness = o.happiness
              /\ r.hygiene = o.hygiene /\ r.health = o.health
              /\ r.discipline = o.discipline /\ r.energy = o.energy
              /\ r.light_on = b.light_on

\* C35: for every row that is not dead, whatever its stats, a recompute 10
\* hours or more after last_interacted_at returns hunger 0, health 0 and
\* stage dead.
C35_TenHoursFatal ==
    Evaluated =>
        \A r \in table : \A o \in ret :
            (r.stage # "dead" /\ now - r.last_interacted_at >= 600) =>
                (o.hunger = 0 /\ o.health = 0 /\ o.stage = "dead")

\* a pet with every stat at 100 is dead exactly 10 hours later
C35_Witness ==
    /\ Evaluated
    /\ now - InputTime = 600
    /\ \E r \in table : \E o \in ret :
          /\ r.stage = "adult"
          /\ r.hunger = 100 /\ r.happiness = 100 /\ r.hygiene = 100 /\ r.health = 100
          /\ o.hunger = 0 /\ o.health = 0 /\ o.stage = "dead"

\* C36: in every persisted row a teen or an adult has discipline > 0, a
\* child, teen or adult is at least 2 hours old, a teen or adult at least 8
\* hours old and an adult at least 24 hours old (age = now - created_at).
C36_StagePreconditions ==
    \A r \in table :
        LET age == now - r.created_at
        IN  /\ r.stage \in {"teen", "adult"} => r.discipline > 0
            /\ r.stage \in {"child", "teen", "adult"} => age >= 120
            /\ r.stage \in {"teen", "adult"} => age >= 480
            /\ r.stage = "adult" => age >= 1440

\* a pet spawned as an egg has been written as a child
C36_Witness ==
    /\ op \in ValidActions \cup {"get", "toggleSleep", "toggleLight"}
    /\ \E r \in table : \E b \in Before(r) :
          /\ b.stage = "baby" /\ b.discipline = 0
          /\ r.stage = "child" /\ now - r.created_at >= 120

\* a disciplined child has been written as a teen
C36_WitnessTeen ==
    /\ op \in ValidActions \cup {"get", "toggleSleep", "toggleLight"}
    /\ \E r \in table : \E b \in Before(r) :
          /\ b.stage = "child"
          /\ r.stage = "teen" /\ now - r.created_at >= 480 /\ r.discipline > 0

\* C37: once a row has been written with stage = dead, no write of a request
\* or sweep that read the row before stores another stage in that row (the
\* row is the same while user_id and created_at are).
C37_DeathSurvivesRaces ==
    \A r \in table : \A b \in Before(r) :
        (b.stage = "dead" /\ r.created_at = b.created_at) => r.stage = "dead"

\* C38: while the hour is outside the sleep window of the pet's stage and
\* every read comes 6 minutes or more after the last write, a pet that was
\* falling_asleep, asleep or waking_up is awake after three reads at the
\* latest, and a pet stored as waking_up is awake after the next read.
C38_WakesUp ==
    (op = "get" /\ Daytime(now)) =>
        \A r \in table :
            /\ steps >= 3 => r.sleep_state = "awake"
            /\ \A b \in Before(r) :
                  (b.sleep_state = "waking_up"
                      /\ ~shouldBeSleeping(b.stage, HourOf(now))
                      /\ now - b.last_interacted_at >= 6) =>
                      r.sleep_state = "awake"

\* the third read wakes a pet that was falling asleep at the start
C38_Witness ==
    /\ op = "get" /\ steps = 3
    /\ \E r \in table : \E b \in Before(r) :
          /\ b.sleep_state = "waking_up" /\ r.sleep_state = "awake"
          /\ r.stage \notin {"egg", "dead"}

\* C39: no recompute made by a request or a sweep takes a pet from
\* falling_asleep to awake: the state machine runs only 6 minutes or more
\* after the last write and sleep_start_time is never later than that write,
\* so isInterrupted is false and the sleep quality computed carries no
\* 20-point penalty.
C39_NoInterruption ==
    \A b \in prev : \A o \in ret :
        ("sleepState" \in o.keys /\ b.sleep_state = "falling_asleep") =>
            /\ now - b.last_interacted_at >= 6
            /\ now - DateOf(b.sleep_start_time) >= FallingAsleepMinutes
            /\ o.sleepState = "asleep"
            /\ ~updateSleepState(b, now).isInterrupted
            /\ o.sleepQuality = calculateSleepQuality(b, b.light_on, FALSE)

\* a pet put to bed in the daytime, or as an egg, is recomputed outside its
\* sleep window and comes back asleep
C39_Witness ==
    /\ op = "get"
    /\ \E b \in prev : \E o \in ret :
          /\ "sleepState" \in o.keys
          /\ b.sleep_state = "falling_asleep"
          /\ ~shouldBeSleeping(b.stage, HourOf(now))
          /\ b.sleep_start_time = b.last_interacted_at
          /\ o.sleepState = "asleep" /\ o.sleepQuality = 100

\* C40: after reads at t1 and at t2 each of hunger, happiness, hygiene and
\* health stored is greater than or equal to the value a read at t2 alone
\* gives from the same row at t0.
C40_ExtraReadsNeverHurt ==
    op = "get" =>
        \A r \in table : \A o \in ret :
            /\ r.hunger >= o.hunger
            /\ r.happiness >= o.happiness
            /\ r.hygiene >= o.hygiene
            /\ r.health >= o.health

\* a dirty pet read after 5 and after 10 minutes keeps the point of hunger
\* and the 3 points of health that a single read after 10 minutes takes
C40_Witness ==
    /\ op = "get" /\ steps = 2
    /\ \E r \in table : \E o \in ret : \E b \in prev :
          /\ now - b.last_interacted_at = 10
          /\ b.hygiene = 0
          /\ r.hunger > o.hunger
          /\ r.health > o.health /\ o.health > 0

=============================================================================
